---- MODULE Spec2Model ----
(***************************************************************************)
(* Model of the git driver of hound (src/vcs/git.go): driver construction  *)
(* from a serialized configuration, ref resolution, the clone / fetch /    *)
(* reset / rev-parse protocol of Clone, Pull and HeadRev, and the          *)
(* attributes-file scan of AutoGeneratedFilePatterns.                      *)
(*                                                                         *)
(* Text is modelled as sequences of atoms (strings): an output is a        *)
(* sequence of lines, a line a sequence of atoms.  The literals the two    *)
(* regular expressions look for are single atoms; every other atom is a    *)
(* run of ordinary characters or a single character.                       *)
(***************************************************************************)
EXTENDS Integers, Sequences, FiniteSets, TLC

VARIABLES drv, remote, dirs, cur, trace, ret, cloned, solo

vars == <<drv, remote, dirs, cur, trace, ret, cloned, solo>>

(* ------------------------------------------------------------------ *)
(* Universe of the model                                               *)
(* ------------------------------------------------------------------ *)

Procs == {"p1", "p2"}
Dirs == {"d1", "d2"}
Branches == {"master", "dev"}
Commits == {"c1", "c2"}
NoCommit == "none"
GoodUrl == "git://remote"
BadUrl == "git://unreachable"
Urls == {GoodUrl, BadUrl}

defaultRef == "master"

(* ------------------------------------------------------------------ *)
(* Serialized configuration and newGit                                 *)
(* ------------------------------------------------------------------ *)

Tok(t, v) == [t |-> t, v |-> v]
LB == Tok("{", "")
RB == Tok("}", "")
COLON == Tok(":", "")
COMMA == Tok(",", "")
TStr(s) == Tok("str", s)
TTrue == Tok("true", "")
TFalse == Tok("false", "")
TNull == Tok("null", "")
TNum == Tok("num", "5")

NilBlob == [nil |-> TRUE, toks |-> <<>>]
Bytes(toks) == [nil |-> FALSE, toks |-> toks]

Blobs ==
  { NilBlob,
    Bytes(<<>>),
    Bytes(<<LB, RB>>),
    Bytes(<<LB, TStr("ref"), COLON, TStr("dev"), RB>>),
    Bytes(<<TNull>>),
    Bytes(<<LB, TStr("other"), COLON, TNum, RB>>),
    Bytes(<<LB, TStr("detect-ref"), COLON, TTrue, RB>>),
    Bytes(<<LB, TStr("ref"), COLON, TStr(""), COMMA,
            TStr("detect-ref"), COLON, TFalse, RB>>),
    Bytes(<<LB, TStr("detect-ref"), COLON, TTrue, COMMA,
            TStr("ref"), COLON, TStr("dev"), RB>>),
    Bytes(<<LB>>),
    Bytes(<<LB, TStr("ref"), COLON, RB>>),
    Bytes(<<LB, TStr("ref"), COLON, TNum, RB>>),
    Bytes(<<LB, TStr("detect-ref"), COLON, TStr("yes"), RB>>),
    Bytes(<<TTrue>>),
    Bytes(<<LB, RB, RB>>) }

(* configurations used by the smaller specifications *)
DevBlob == Bytes(<<LB, TStr("ref"), COLON, TStr("dev"), RB>>)
DetectBlob == Bytes(<<LB, TStr("detect-ref"), COLON, TTrue, RB>>)

ZeroDriver == [DetectRef |-> FALSE, Ref |-> ""]

IsValue(tok) == tok.t \in {"str", "true", "false", "null", "num"}

(* One member `key : value` decoded into the struct: a known key takes a  *)
(* value of its field's type, null leaves the field, an unknown key is    *)
(* skipped, any other value is a type error.                              *)
SetField(d, k, val) ==
  IF val.t = "null" THEN [ok |-> TRUE, d |-> d]
  ELSE IF k = "detect-ref"
    THEN IF val.t \in {"true", "false"}
           THEN [ok |-> TRUE, d |-> [d EXCEPT !.DetectRef = (val.t = "true")]]
           ELSE [ok |-> FALSE, d |-> d]
  ELSE IF k = "ref"
    THEN IF val.t = "str"
           THEN [ok |-> TRUE, d |-> [d EXCEPT !.Ref = val.v]]
           ELSE [ok |-> FALSE, d |-> d]
  ELSE [ok |-> TRUE, d |-> d]

RECURSIVE Members(_, _, _, _)
Members(toks, i, d, ok) ==
  IF i + 3 > Len(toks) THEN [ok |-> FALSE, d |-> d]
  ELSE IF ~(toks[i].t = "str" /\ toks[i + 1].t = ":" /\ IsValue(toks[i + 2]))
    THEN [ok |-> FALSE, d |-> d]
  ELSE LET f == SetField(d, toks[i].v, toks[i + 2])
       IN IF toks[i + 3].t = "}"
            THEN [ok |-> ok /\ f.ok /\ i + 3 = Len(toks), d |-> f.d]
          ELSE IF toks[i + 3].t = ","
            THEN Members(toks, i + 4, f.d, ok /\ f.ok)
          ELSE [ok |-> FALSE, d |-> d]

(* json.Unmarshal(b, &d) on a zero GitDriver *)
Unmarshal(toks, d) ==
  IF Len(toks) = 0 THEN [ok |-> FALSE, d |-> d]
  ELSE IF Len(toks) = 1 /\ toks[1].t = "null" THEN [ok |-> TRUE, d |-> d]
  ELSE IF toks[1].t # "{" THEN [ok |-> FALSE, d |-> d]
  ELSE IF Len(toks) = 2 /\ toks[2].t = "}" THEN [ok |-> TRUE, d |-> d]
  ELSE Members(toks, 2, d, TRUE)

(* st: "none" (not constructed), "ok" (a driver, nil error) or "err" (a  *)
(* nil driver and an error)                                              *)
NoDriver == [st |-> "none", DetectRef |-> FALSE, Ref |-> ""]

newGit(b) ==
  IF b.nil
    THEN [st |-> "ok", DetectRef |-> FALSE, Ref |-> ""]
    ELSE LET u == Unmarshal(b.toks, ZeroDriver)
         IN IF u.ok
              THEN [st |-> "ok", DetectRef |-> u.d.DetectRef, Ref |-> u.d.Ref]
              ELSE [st |-> "err", DetectRef |-> FALSE, Ref |-> ""]

(* ------------------------------------------------------------------ *)
(* Text helpers                                                        *)
(* ------------------------------------------------------------------ *)

RECURSIVE Join(_)
Join(s) == IF s = <<>> THEN "" ELSE Head(s) \o Join(Tail(s))

IsSpace(a) == a \in {" ", "\n", "\t"}

RECURSIVE TrimLeft(_)
TrimLeft(s) ==
  IF s # <<>> /\ IsSpace(Head(s)) THEN TrimLeft(Tail(s)) ELSE s

RECURSIVE TrimRight(_)
TrimRight(s) ==
  IF s # <<>> /\ IsSpace(s[Len(s)]) THEN TrimRight(SubSeq(s, 1, Len(s) - 1))
  ELSE s

(* strings.TrimSpace(buf.String()) on a stream of atoms *)
TrimSpace(s) == Join(TrimRight(TrimLeft(s)))

HB == "HEAD branch: "

(* headBranchRegexp.FindStringSubmatch(line): `.+` needs one atom after  *)
(* the literal and runs to the end of the line                           *)
HeadBranchAt(line) ==
  { i \in 1..Len(line) : line[i] = HB /\ i < Len(line) }

HeadBranchLines(text) ==
  { n \in 1..Len(text) : HeadBranchAt(text[n]) # {} }

Min(S) == CHOOSE x \in S : \A y \in S : x <= y
Max(S) == CHOOSE x \in S : \A y \in S : x >= y

(* the list FindStringSubmatch returns: <<>> (no match) or               *)
(* <<whole match, branch>>                                               *)
headBranchMatches(text) ==
  IF HeadBranchLines(text) = {} THEN <<>>
  ELSE LET line == text[Min(HeadBranchLines(text))]
           i == Min(HeadBranchAt(line))
       IN <<Join(SubSeq(line, i, Len(line))),
            Join(SubSeq(line, i + 1, Len(line)))>>

MK == " linguist-generated=true"

(* autoGeneratedFileRegexp.FindStringSubmatch(line): the expression is    *)
(* not anchored, `.+` is greedy and needs one atom before the marker, so  *)
(* the path runs from the start of the line to the last marker that has   *)
(* something before it.  <<>> (no match) or <<whole match, path>>.        *)
MarkerAt(line) == { i \in 1..Len(line) : line[i] = MK /\ i >= 2 }

autoGeneratedMatches(line) ==
  IF MarkerAt(line) = {} THEN <<>>
  ELSE LET j == Max(MarkerAt(line))
       IN <<SubSeq(line, 1, j), SubSeq(line, 1, j - 1)>>

(* mutant: `**` is not replaced first *)
ReplaceStarStar_none(s) == s

(* strings.ReplaceAll(s, "**", "*"): non-overlapping, left to right *)
RECURSIVE ReplaceStarStar(_)
ReplaceStarStar(s) ==
  IF s = <<>> THEN <<>>
  ELSE IF Len(s) >= 2 /\ s[1] = "*" /\ s[2] = "*"
    THEN <<"*">> \o ReplaceStarStar(SubSeq(s, 3, Len(s)))
  ELSE <<s[1]>> \o ReplaceStarStar(Tail(s))

(* strings.ReplaceAll(s, "*", ".*") *)
RECURSIVE ReplaceStar(_)
ReplaceStar(s) ==
  IF s = <<>> THEN <<>>
  ELSE IF s[1] = "*" THEN <<".", "*">> \o ReplaceStar(Tail(s))
  ELSE <<s[1]>> \o ReplaceStar(Tail(s))

(* the scanner loop of AutoGeneratedFilePatterns over the lines of a file *)
RECURSIVE ScanLines(_)
ScanLines(lines) ==
  IF lines = <<>> THEN <<>>
  ELSE LET matches == autoGeneratedMatches(Head(lines))
       IN (IF Len(matches) = 2
             THEN <<Join(ReplaceStar(ReplaceStarStar(matches[2])))>>
             ELSE <<>>) \o ScanLines(Tail(lines))

(* ------------------------------------------------------------------ *)
(* Attributes files                                                    *)
(* ------------------------------------------------------------------ *)

NoFile == [st |-> "absent", lines |-> <<>>]
Unreadable == [st |-> "unreadable", lines |-> << <<"gen.go", MK>> >>]
File(lines) == [st |-> "file", lines |-> lines]

Files ==
  { File(<< <<"vendor", "/", "*", "*", "/", "*", ".go", MK>> >>),
    File(<< <<"# generated code">>,
            <<"a", "*", MK, " -diff">>,
            <<MK>>,
            <<"*", "*", "*", MK>>,
            <<"a", "*", MK>> >>),
    File(<< <<"vendor", "/", "*", "*", "/", "*", ".go", MK>>,
            <<"*", "*", MK>>,
            <<"b", MK>>,
            <<"*", "*", MK>> >>),
    File(<< <<"*", "*", "*", "*", "/", "*", "*", "*", MK, MK>>,
            <<MK, " ", MK>>,
            <<"c", "linguist-generated=true">> >>),
    File(<<>>) }

AttrStates == {NoFile, Unreadable} \cup Files

(* os.Open(path) fails when the file is absent or cannot be opened *)
OpenFails(f) == f.st # "file"

(* mutant: the error of os.Open is ignored *)
AutoGeneratedFilePatterns_ignoreOpenErr(f) == ScanLines(f.lines)

AutoGeneratedFilePatterns(f) ==
  IF OpenFails(f) THEN <<>> ELSE ScanLines(f.lines)

SpecialFiles == <<".git">>

(* ------------------------------------------------------------------ *)
(* The remote repository and the working directories                   *)
(* ------------------------------------------------------------------ *)

(* the remote at the start: master at c1, dev at c2, HEAD on master *)
InitRemote == [refs |-> [b \in Branches |-> IF b = "master" THEN "c1" ELSE "c2"],
               head |-> "master"]

NoTracking == [b \in Branches |-> NoCommit]
NoDir == [exists |-> FALSE, head |-> NoCommit, tracking |-> NoTracking,
          attr |-> NoFile]

(* outputs a failing `git remote show origin` may have produced *)
FailTexts ==
  { <<>>,
    << <<"fatal: unable to access">> >>,
    << <<"* remote origin">>, <<"  ", HB, "dev">>, <<"error: broken pipe">> >> }

RemoteHeadName(rem) ==
  IF rem.refs[rem.head] = NoCommit THEN "(unknown)" ELSE rem.head

(* Each subprocess yields [failed, out, dir]: its exit status, its        *)
(* combined output and the working directory it leaves.  `fault` is a     *)
(* failure the repository state does not explain (network, resources).    *)

(* git clone --depth 1 url rep *)
GitClone(rem, dir, url, fault) ==
  LET failed == fault \/ url # GoodUrl \/ dir.exists
  IN [failed |-> failed,
      out |-> <<>>,
      dir |-> IF failed THEN dir
              ELSE [exists |-> TRUE,
                    head |-> rem.refs[rem.head],
                    tracking |-> [b \in Branches |->
                                    IF b = rem.head THEN rem.refs[b]
                                    ELSE NoCommit],
                    attr |-> dir.attr]]

(* git remote show origin *)
GitRemoteShow(rem, dir, fault, text) ==
  LET failed == fault \/ ~dir.exists
  IN [failed |-> failed,
      out |-> IF ~dir.exists THEN <<>>
              ELSE IF fault THEN text
              ELSE << <<"* remote origin">>, <<"  ", HB, RemoteHeadName(rem)>> >>,
      dir |-> dir]

(* git fetch --prune --no-tags --depth 1 origin +src:remotes/origin/dst *)
GitFetch(rem, dir, src, dst, fault) ==
  LET failed == \/ fault
                \/ ~dir.exists
                \/ src \notin Branches
                \/ dst \notin Branches
                \/ rem.refs[src] = NoCommit
  IN [failed |-> failed,
      out |-> <<>>,
      dir |-> IF failed THEN dir
              ELSE [dir EXCEPT !.tracking[dst] = rem.refs[src]]]

(* git reset --hard origin/ref *)
GitReset(dir, ref, fault) ==
  LET failed == \/ fault
                \/ ~dir.exists
                \/ ref \notin Branches
                \/ dir.tracking[ref] = NoCommit
  IN [failed |-> failed,
      out |-> <<>>,
      dir |-> IF failed THEN dir ELSE [dir EXCEPT !.head = dir.tracking[ref]]]

(* git rev-parse HEAD: what it writes to its standard output *)
RevParseOut(dir) ==
  IF dir.head = NoCommit THEN <<"HEAD", "\n">> ELSE <<dir.head, "\n">>

HeadRevFaults == {"none", "start", "read", "wait"}

(* where HeadRev fails: "start" (cmd.Start), "read" (io.Copy), "wait"    *)
(* (cmd.Wait, a non-zero exit included) or "none"                        *)
HeadRevFailure(dir, f) ==
  IF ~dir.exists \/ f = "start" THEN "start"
  ELSE IF f = "read" THEN "read"
  ELSE IF dir.head = NoCommit \/ f = "wait" THEN "wait"
  ELSE "none"

(* ------------------------------------------------------------------ *)
(* run, HeadRev, detectRef, targetRef                                  *)
(* ------------------------------------------------------------------ *)

LogEntry(by, desc, dir, out) == [by |-> by, desc |-> desc, dir |-> dir, out |-> out]

(* run(desc, dir, cmd, args...): logs on failure, returns the output and *)
(* a nil error; log is what it passes to log.Printf                      *)
(* mutant: run returns the error of the subprocess *)
run_propagates(desc, dir, res) ==
  [out |-> res.out, err |-> res.failed,
   log |-> IF res.failed THEN <<LogEntry("run", desc, dir, res.out)>> ELSE <<>>]

(* mutant: run logs the failure twice *)
run_logsTwice(desc, dir, res) ==
  [out |-> res.out, err |-> FALSE,
   log |-> IF res.failed
             THEN <<LogEntry("run", desc, dir, res.out),
                    LogEntry("run", desc, dir, res.out)>>
             ELSE <<>>]

run(desc, dir, res) ==
  [out |-> res.out, err |-> FALSE,
   log |-> IF res.failed THEN <<LogEntry("run", desc, dir, res.out)>> ELSE <<>>]

(* mutant: the result of cmd.Wait is dropped *)
HeadRev_ignoreWait(dir, f) ==
  LET k == HeadRevFailure(dir, f)
  IN IF k \in {"start", "read"} THEN [rev |-> "", err |-> TRUE, kind |-> k]
     ELSE [rev |-> TrimSpace(RevParseOut(dir)), err |-> FALSE, kind |-> k]

HeadRev(dir, f) ==
  LET k == HeadRevFailure(dir, f)
  IN IF k \in {"start", "read"} THEN [rev |-> "", err |-> TRUE, kind |-> k]
     ELSE [rev |-> TrimSpace(RevParseOut(dir)), err |-> k = "wait", kind |-> k]

(* mutant: the detector keeps answering the branch it found the first *)
(* time, the HEAD branch the remote began with                         *)
detectRef_firstSeen(r) ==
  IF r.err THEN "" ELSE InitRemote.head

detectRef(r) ==
  IF r.err THEN ""
  ELSE LET matches == headBranchMatches(r.out)
       IN IF Len(matches) # 2 THEN "" ELSE matches[2]

(* what detectRef itself passes to log.Printf, after run returned r *)
detectRefLog(r, dir) ==
  IF r.err
    THEN <<LogEntry("detectRef", "error occured when fetching info", dir, <<>>)>>
  ELSE IF Len(headBranchMatches(r.out)) # 2
    THEN <<LogEntry("detectRef", "could not determine target ref", dir, <<>>)>>
  ELSE <<>>

(* targetRef calls the detector only in its second branch *)
CallsDetector(g) == g.Ref = "" /\ g.DetectRef

(* mutant: the detector takes precedence over an explicit Ref *)
targetRef_detectFirst(g, detected) ==
  LET t == IF g.DetectRef /\ detected # "" THEN detected
           ELSE IF g.Ref # "" THEN g.Ref
           ELSE ""
  IN IF t = "" THEN defaultRef ELSE t

(* mutant: no fallback to the default ref *)
targetRef_noDefault(g, detected) ==
  IF g.Ref # "" THEN g.Ref
  ELSE IF g.DetectRef THEN detected
  ELSE ""

targetRef(g, detected) ==
  LET t == IF g.Ref # "" THEN g.Ref
           ELSE IF g.DetectRef THEN detected
           ELSE ""
  IN IF t = "" THEN defaultRef ELSE t

(* mutant: Pull resets before it fetches *)
NextPc_resetFirst(pc) ==
  CASE pc = "clone" -> "resolve"
    [] pc = "pull" -> "resolve"
    [] pc = "resolve" -> "reset"
    [] pc = "reset" -> "fetch"
    [] pc = "fetch" -> "revparse"

(* mutant: when the reset is over Pull fetches again *)
NextPc_retry(pc) ==
  CASE pc = "clone" -> "resolve"
    [] pc = "pull" -> "resolve"
    [] pc = "resolve" -> "fetch"
    [] pc = "fetch" -> "reset"
    [] pc = "reset" -> "fetch"

(* mutant: Pull goes from the fetch straight to HeadRev *)
NextPc_noReset(pc) ==
  CASE pc = "clone" -> "resolve"
    [] pc = "pull" -> "resolve"
    [] pc = "resolve" -> "fetch"
    [] pc = "fetch" -> "revparse"
    [] pc = "reset" -> "revparse"

(* the order of the steps of Clone and Pull: Clone's clone, then Pull's  *)
(* targetRef, fetch, reset and HeadRev                                   *)
NextPc(pc) ==
  CASE pc = "clone" -> "resolve"
    [] pc = "pull" -> "resolve"
    [] pc = "resolve" -> "fetch"
    [] pc = "fetch" -> "reset"
    [] pc = "reset" -> "revparse"

(* mutant: the fetch always takes the default branch of the remote *)
FetchRefspec_defaultSrc(ref) == [src |-> defaultRef, dst |-> ref]

(* Pull's fetch refspec +<targetRef>:remotes/origin/<targetRef> *)
FetchRefspec(ref) == [src |-> ref, dst |-> ref]

(* mutant: the reset always goes to origin/master *)
ResetTarget_default(ref) == defaultRef

(* Pull's reset target origin/<targetRef> *)
ResetTarget(ref) == ref

(* what Clone passes to log.Printf when the clone subprocess failed *)
CloneLog(url, res) ==
  IF res.failed THEN <<LogEntry("Clone", url, "", res.out)>> ELSE <<>>

(* mutant: a failed clone is logged and Clone goes on *)
CloneErr_ignored(res) == FALSE

(* Clone's test of the clone subprocess: err != nil *)
CloneErr(res) == res.failed

(* ------------------------------------------------------------------ *)
(* State                                                               *)
(*   drv[p]    the driver caller p constructed (or none / error)       *)
(*   remote    the remote repository: its branches and its HEAD branch *)
(*   dirs[d]   working directory d                                     *)
(*   cur[p]    the call p is executing and its position                *)
(*   trace[p]  subprocesses invoked by p's current or last call        *)
(*   ret[p]    what p's last completed call was given and returned     *)
(*             (history, cleared when the next call begins)            *)
(*   cloned[p] p's last Clone, while the remote is unchanged (history) *)
(*   solo[p]   what p's calls do when no other caller runs (history)   *)
(* ------------------------------------------------------------------ *)

(* after: the revision the call just before this one returned, when     *)
(* that call was a Clone of the same directory that returned no error;   *)
(* got: the remote's commit for the resolved ref when the fetch ran;     *)
(* used: the ref names handed to fetch and reset; log: the log entries   *)
(* of the call, in order                                                 *)
Idle == [op |-> "idle", pc |-> "idle", dir |-> "", url |-> "", ref |-> "",
         det |-> "", fails |-> {}, faults |-> {}, after |-> "",
         got |-> "", used |-> {}, log |-> <<>>]

NoRet == [op |-> "none", dir |-> "", rev |-> "", err |-> FALSE, pats |-> <<>>,
          fails |-> {}, faults |-> {}, hr |-> "none", blob |-> NilBlob,
          after |-> "", ref |-> "", got |-> "", used |-> {}, log |-> <<>>]

(* The record of a Clone is kept while it runs ("running") and, once it  *)
(* returned no error ("ok"), for as long as the remote has not moved     *)
(* since the Clone began and no other caller changed the directory.      *)
(* stable: the remote has not moved since the Clone began; clean: no     *)
(* subprocess of the Clone, or of a call on the directory completed      *)
(* since, was hit by a fault.                                            *)
NoClone == [dir |-> "", st |-> "none", rev |-> "", stable |-> FALSE,
            clean |-> FALSE]

(* solo[p]: the same calls of p, with the same remote and the same       *)
(* faults, run with no other caller: the directories they leave, the     *)
(* ref they resolve and what the last one returns; div: the call took a  *)
(* different return path than it does alone                              *)
NoSolo == [dirs |-> [d \in Dirs |-> NoDir], ref |-> "", rev |-> "",
           err |-> FALSE, div |-> FALSE]

Init ==
  /\ drv = [p \in Procs |-> NoDriver]
  /\ remote = InitRemote
  /\ dirs = [d \in Dirs |-> NoDir]
  /\ cur = [p \in Procs |-> Idle]
  /\ trace = [p \in Procs |-> <<>>]
  /\ ret = [p \in Procs |-> NoRet]
  /\ cloned = [p \in Procs |-> NoClone]
  /\ solo = [p \in Procs |-> NoSolo]

(* the faults that can hit a subprocess: one that fails anyway is not    *)
(* failed a second time                                                  *)
Faults(res) == IF res.failed THEN {FALSE} ELSE BOOLEAN

Mark(c, step, failed, fault) ==
  [c EXCEPT !.fails = IF failed THEN @ \cup {step} ELSE @,
            !.faults = IF fault THEN @ \cup {step} ELSE @]

(* a step of p on directory d ends the validity of the other callers'    *)
(* Clone records for d when it changes d                                 *)
Touched(p, d, nd) ==
  [q \in Procs |->
     IF q # p /\ cloned[q].dir = d /\ nd # dirs[d]
       THEN NoClone
       ELSE cloned[q]]

(* the call of p begins alone as well *)
SoloBegin(p) ==
  solo' = [solo EXCEPT ![p] = [@ EXCEPT !.ref = "", !.rev = "", !.err = FALSE,
                                        !.div = FALSE]]

(* a subprocess step of p alone leaves directory d as nd; `returned`     *)
(* tells whether the call returns here, `alone` whether it does alone    *)
SoloStep(p, d, nd, returned, alone) ==
  solo' = [solo EXCEPT ![p] =
             [@ EXCEPT !.dirs[d] = nd,
                       !.err = IF alone THEN TRUE ELSE @,
                       !.div = @ \/ (returned # alone)]]

(* mutant: the result of a call is stored where every caller reads it *)
Done_shared(p, c, rev, err, hr, pats, cl) ==
  /\ ret' = [q \in Procs |->
               [op |-> c.op, dir |-> c.dir, rev |-> rev, err |-> err,
                pats |-> pats, fails |-> c.fails, faults |-> c.faults,
                hr |-> hr, blob |-> NilBlob, after |-> c.after,
                ref |-> c.ref, got |-> c.got, used |-> c.used, log |-> c.log]]
  /\ cur' = [cur EXCEPT ![p] = Idle]
  /\ cloned' = [cl EXCEPT ![p] =
                  IF c.op = "Clone"
                    THEN IF err \/ ~@.stable THEN NoClone
                         ELSE [@ EXCEPT !.st = "ok", !.rev = rev,
                                        !.clean = c.faults = {}]
                  ELSE IF @.st = "ok" /\ c.dir = @.dir /\ c.faults # {}
                    THEN [@ EXCEPT !.clean = FALSE]
                  ELSE @]

(* the call of p returns (rev, err); c is its final call record *)
Done(p, c, rev, err, hr, pats, cl) ==
  /\ ret' = [ret EXCEPT ![p] =
               [op |-> c.op, dir |-> c.dir, rev |-> rev, err |-> err,
                pats |-> pats, fails |-> c.fails, faults |-> c.faults,
                hr |-> hr, blob |-> NilBlob, after |-> c.after,
                ref |-> c.ref, got |-> c.got, used |-> c.used, log |-> c.log]]
  /\ cur' = [cur EXCEPT ![p] = Idle]
  /\ cloned' = [cl EXCEPT ![p] =
                  IF c.op = "Clone"
                    THEN IF err \/ ~@.stable THEN NoClone
                         ELSE [@ EXCEPT !.st = "ok", !.rev = rev,
                                        !.clean = c.faults = {}]
                  ELSE IF @.st = "ok" /\ c.dir = @.dir /\ c.faults # {}
                    THEN [@ EXCEPT !.clean = FALSE]
                  ELSE @]

(* ------------------------------------------------------------------ *)
(* Construction                                                        *)
(* ------------------------------------------------------------------ *)

Construct(p, b) ==
  /\ drv[p].st # "ok"
  /\ drv' = [drv EXCEPT ![p] = newGit(b)]
  /\ ret' = [ret EXCEPT ![p] = [NoRet EXCEPT !.op = "newGit", !.blob = b,
                                            !.err = newGit(b).st = "err"]]
  /\ UNCHANGED <<remote, dirs, cur, trace, cloned, solo>>

(* ------------------------------------------------------------------ *)
(* Calls                                                               *)
(* ------------------------------------------------------------------ *)

AfterClone(p, d) ==
  IF ret[p].op = "Clone" /\ ret[p].dir = d /\ ~ret[p].err THEN ret[p].rev
  ELSE ""

(* mutant: a call waits until no other caller is in a call *)
CanCall_locked(p) ==
  drv[p].st = "ok" /\ \A q \in Procs : cur[q].op = "idle"

CanCall(p) == drv[p].st = "ok" /\ cur[p].op = "idle"

CallClone(p, d, url) ==
  /\ CanCall(p)
  /\ cur' = [cur EXCEPT ![p] = [Idle EXCEPT !.op = "Clone", !.pc = "clone",
                                            !.dir = d, !.url = url]]
  /\ trace' = [trace EXCEPT ![p] = <<>>]
  /\ cloned' = [cloned EXCEPT ![p] = [dir |-> d, st |-> "running", rev |-> "",
                                      stable |-> TRUE, clean |-> FALSE]]
  /\ ret' = [ret EXCEPT ![p] = NoRet]
  /\ SoloBegin(p)
  /\ UNCHANGED <<drv, remote, dirs>>

CallPull(p, d) ==
  /\ CanCall(p)
  /\ cur' = [cur EXCEPT ![p] = [Idle EXCEPT !.op = "Pull", !.pc = NextPc("pull"),
                                            !.dir = d]]
  /\ trace' = [trace EXCEPT ![p] = <<>>]
  /\ ret' = [ret EXCEPT ![p] = NoRet]
  /\ SoloBegin(p)
  /\ UNCHANGED <<drv, remote, dirs, cloned>>

CallHeadRev(p, d) ==
  /\ CanCall(p)
  /\ cur' = [cur EXCEPT ![p] = [Idle EXCEPT !.op = "HeadRev", !.pc = "revparse",
                                            !.dir = d, !.after = AfterClone(p, d)]]
  /\ trace' = [trace EXCEPT ![p] = <<>>]
  /\ ret' = [ret EXCEPT ![p] = NoRet]
  /\ SoloBegin(p)
  /\ UNCHANGED <<drv, remote, dirs, cloned>>

(* Clone: the clone subprocess; a failure returns at once, a success     *)
(* goes on with Pull                                                     *)
CloneStep(p) ==
  /\ cur[p].pc = "clone"
  /\ \E fault \in Faults(GitClone(remote, dirs[cur[p].dir], cur[p].url, FALSE)) :
       LET d == cur[p].dir
           res == GitClone(remote, dirs[d], cur[p].url, fault)
           sres == GitClone(remote, solo[p].dirs[d], cur[p].url, fault)
           c == [Mark(cur[p], "clone", res.failed, fault)
                   EXCEPT !.log = @ \o CloneLog(cur[p].url, res)]
       IN /\ trace' = [trace EXCEPT ![p] = Append(@, "clone")]
          /\ dirs' = [dirs EXCEPT ![d] = res.dir]
          /\ SoloStep(p, d, sres.dir, CloneErr(res), CloneErr(sres))
          /\ IF CloneErr(res)
               THEN Done(p, c, "", TRUE, "none", <<>>, Touched(p, d, res.dir))
               ELSE /\ cur' = [cur EXCEPT ![p] = [c EXCEPT !.pc = NextPc("clone")]]
                    /\ cloned' = Touched(p, d, res.dir)
                    /\ UNCHANGED ret
  /\ UNCHANGED <<drv, remote>>

(* Pull: targetRef(dir), with the remote-info subprocess of detectRef    *)
(* when the detector is called                                           *)
ResolveStep(p) ==
  /\ cur[p].pc = "resolve"
  /\ LET g == drv[p]
         d == cur[p].dir
     IN IF CallsDetector(g)
          THEN \E fault \in Faults(GitRemoteShow(remote, dirs[d], FALSE, <<>>)) :
               \E text \in (IF fault THEN FailTexts ELSE {<<>>}) :
                 LET res == GitRemoteShow(remote, dirs[d], fault, text)
                     r == run("git show remote info", d, res)
                     det == detectRef(r)
                     sres == GitRemoteShow(remote, solo[p].dirs[d], fault, text)
                     sdet == detectRef(run("git show remote info", d, sres))
                     c == Mark(cur[p], "remote-show", res.failed, fault)
                 IN /\ trace' = [trace EXCEPT ![p] = Append(@, "remote-show")]
                    /\ cur' = [cur EXCEPT ![p] =
                                 [c EXCEPT !.pc = NextPc("resolve"), !.det = det,
                                           !.ref = targetRef(g, det),
                                           !.log = @ \o r.log \o detectRefLog(r, d)]]
                    /\ solo' = [solo EXCEPT ![p].ref = targetRef(g, sdet)]
          ELSE /\ cur' = [cur EXCEPT ![p].pc = NextPc("resolve"),
                                     ![p].ref = targetRef(g, "")]
               /\ solo' = [solo EXCEPT ![p].ref = targetRef(g, "")]
               /\ UNCHANGED trace
  /\ UNCHANGED <<drv, remote, dirs, ret, cloned>>

FetchStep(p) ==
  /\ cur[p].pc = "fetch"
  /\ LET d == cur[p].dir
         spec == FetchRefspec(cur[p].ref)
         sspec == FetchRefspec(solo[p].ref)
     IN \E fault \in Faults(GitFetch(remote, dirs[d], spec.src, spec.dst, FALSE)) :
          LET res == GitFetch(remote, dirs[d], spec.src, spec.dst, fault)
              r == run("git fetch", d, res)
              sres == GitFetch(remote, solo[p].dirs[d], sspec.src, sspec.dst, fault)
              sr == run("git fetch", d, sres)
              c == [Mark(cur[p], "fetch", res.failed, fault)
                      EXCEPT !.got = IF cur[p].ref \in Branches
                                       THEN remote.refs[cur[p].ref]
                                       ELSE NoCommit,
                             !.used = @ \cup {spec.src, spec.dst},
                             !.log = @ \o r.log]
          IN /\ trace' = [trace EXCEPT ![p] = Append(@, "fetch")]
             /\ dirs' = [dirs EXCEPT ![d] = res.dir]
             /\ SoloStep(p, d, sres.dir, r.err, sr.err)
             /\ IF r.err
                  THEN Done(p, c, "", TRUE, "none", <<>>, Touched(p, d, res.dir))
                  ELSE /\ cur' = [cur EXCEPT ![p] = [c EXCEPT !.pc = NextPc("fetch")]]
                       /\ cloned' = Touched(p, d, res.dir)
                       /\ UNCHANGED ret
  /\ UNCHANGED <<drv, remote>>

ResetStep(p) ==
  /\ cur[p].pc = "reset"
  /\ LET d == cur[p].dir
         tgt == ResetTarget(cur[p].ref)
     IN \E fault \in Faults(GitReset(dirs[d], tgt, FALSE)) :
          LET res == GitReset(dirs[d], tgt, fault)
              r == run("git reset", d, res)
              sres == GitReset(solo[p].dirs[d], ResetTarget(solo[p].ref), fault)
              sr == run("git reset", d, sres)
              c == [Mark(cur[p], "reset", res.failed, fault)
                      EXCEPT !.used = @ \cup {tgt},
                             !.log = @ \o r.log]
          IN /\ trace' = [trace EXCEPT ![p] = Append(@, "reset")]
             /\ dirs' = [dirs EXCEPT ![d] = res.dir]
             /\ SoloStep(p, d, sres.dir, r.err, sr.err)
             /\ IF r.err
                  THEN Done(p, c, "", TRUE, "none", <<>>, Touched(p, d, res.dir))
                  ELSE /\ cur' = [cur EXCEPT ![p] = [c EXCEPT !.pc = NextPc("reset")]]
                       /\ cloned' = Touched(p, d, res.dir)
                       /\ UNCHANGED ret
  /\ UNCHANGED <<drv, remote>>

(* HeadRev, called directly or at the end of Pull *)
RevParseStep(p) ==
  /\ cur[p].pc = "revparse"
  /\ \E f \in (IF dirs[cur[p].dir].exists THEN HeadRevFaults ELSE {"none"}) :
       LET d == cur[p].dir
           h == HeadRev(dirs[d], f)
           sh == HeadRev(solo[p].dirs[d], f)
           c == Mark(cur[p], "rev-parse", h.err, f # "none")
       IN /\ trace' = [trace EXCEPT ![p] = Append(@, "rev-parse")]
          /\ solo' = [solo EXCEPT ![p].rev = sh.rev, ![p].err = sh.err]
          /\ Done(p, c, h.rev, h.err, h.kind, <<>>, cloned)
  /\ UNCHANGED <<drv, remote, dirs>>

CallAutoGeneratedFilePatterns(p, d) ==
  /\ CanCall(p)
  /\ trace' = [trace EXCEPT ![p] = <<>>]
  /\ Done(p, [Idle EXCEPT !.op = "AutoGeneratedFilePatterns", !.dir = d],
          "", FALSE, "none", AutoGeneratedFilePatterns(dirs[d].attr), cloned)
  /\ SoloBegin(p)
  /\ UNCHANGED <<drv, remote, dirs>>

CallSpecialFiles(p) ==
  /\ CanCall(p)
  /\ trace' = [trace EXCEPT ![p] = <<>>]
  /\ Done(p, [Idle EXCEPT !.op = "SpecialFiles"], "", FALSE, "none",
          SpecialFiles, cloned)
  /\ SoloBegin(p)
  /\ UNCHANGED <<drv, remote, dirs>>

(* ------------------------------------------------------------------ *)
(* Environment: the remote moves, the attributes file is written       *)
(* ------------------------------------------------------------------ *)

RemoteMoved ==
  cloned' = [q \in Procs |->
               IF cloned[q].st = "running"
                 THEN [cloned[q] EXCEPT !.stable = FALSE]
                 ELSE NoClone]

RemotePush(b, c) ==
  /\ remote.refs[b] # c
  /\ remote' = [remote EXCEPT !.refs[b] = c]
  /\ RemoteMoved
  /\ UNCHANGED <<drv, dirs, cur, trace, ret, solo>>

RemoteSetHead(b) ==
  /\ remote.head # b
  /\ remote' = [remote EXCEPT !.head = b]
  /\ RemoteMoved
  /\ UNCHANGED <<drv, dirs, cur, trace, ret, solo>>

WriteAttributes(d, f) ==
  /\ dirs[d].exists
  /\ dirs[d].attr # f
  /\ dirs' = [dirs EXCEPT ![d].attr = f]
  /\ solo' = [p \in Procs |-> [solo[p] EXCEPT !.dirs[d].attr = f]]
  /\ UNCHANGED <<drv, remote, cur, trace, ret, cloned>>

(* ------------------------------------------------------------------ *)
(* Specification: one caller, one working directory, calls in sequence *)
(* ------------------------------------------------------------------ *)

SeqProcs == {"p1"}
SeqDirs == {"d1"}

Next ==
  \/ \E p \in SeqProcs, b \in Blobs : Construct(p, b)
  \/ \E p \in SeqProcs, d \in SeqDirs, url \in Urls : CallClone(p, d, url)
  \/ \E p \in SeqProcs, d \in SeqDirs : CallPull(p, d)
  \/ \E p \in SeqProcs, d \in SeqDirs : CallHeadRev(p, d)
  \/ \E p \in SeqProcs, d \in SeqDirs : CallAutoGeneratedFilePatterns(p, d)
  \/ \E p \in SeqProcs : CallSpecialFiles(p)
  \/ \E p \in SeqProcs : CloneStep(p)
  \/ \E p \in SeqProcs : ResolveStep(p)
  \/ \E p \in SeqProcs : FetchStep(p)
  \/ \E p \in SeqProcs : ResetStep(p)
  \/ \E p \in SeqProcs : RevParseStep(p)
  \/ \E b \in Branches, c \in Commits \cup {NoCommit} : RemotePush(b, c)
  \/ \E b \in Branches : RemoteSetHead(b)

Spec == Init /\ [][Next]_vars

(* ------------------------------------------------------------------ *)
(* Specification of the attributes scan: a default driver clones the   *)
(* directory, the attributes file is written and scanned               *)
(* ------------------------------------------------------------------ *)

NextAttr ==
  \/ \E p \in SeqProcs : Construct(p, NilBlob)
  \/ \E p \in SeqProcs, d \in SeqDirs : CallClone(p, d, GoodUrl)
  \/ \E p \in SeqProcs : CloneStep(p)
  \/ \E p \in SeqProcs : ResolveStep(p)
  \/ \E p \in SeqProcs : FetchStep(p)
  \/ \E p \in SeqProcs : ResetStep(p)
  \/ \E p \in SeqProcs : RevParseStep(p)
  \/ \E p \in SeqProcs, d \in SeqDirs : CallAutoGeneratedFilePatterns(p, d)
  \/ \E d \in SeqDirs, f \in AttrStates : WriteAttributes(d, f)

SpecAttr == Init /\ [][NextAttr]_vars

(* ================================================================== *)
(* Claims                                                              *)
(* ================================================================== *)

(* the call of p is a Clone or Pull that has resolved its target ref *)
Resolved(p) ==
  cur[p].op \in {"Clone", "Pull"} /\ cur[p].pc \in {"fetch", "reset", "revparse"}

DetectorOutcomes == {"", "master", "dev", "(unknown)"}

Last(s) == s[Len(s)]

Has(s, x) == \E i \in 1..Len(s) : s[i] = x

(* C1: a driver whose Ref is not empty resolves to exactly Ref, for both *)
(* values of DetectRef and whatever the detector would yield; the        *)
(* detector's subprocess is not even run.                                *)
C1_ExplicitRef ==
  \A p \in Procs :
    (drv[p].st = "ok" /\ drv[p].Ref # "") =>
      /\ \A det \in DetectorOutcomes : targetRef(drv[p], det) = drv[p].Ref
      /\ Resolved(p) => /\ cur[p].ref = drv[p].Ref
                        /\ ~Has(trace[p], "remote-show")

C1_Witness ==
  \E p \in Procs :
    /\ Resolved(p)
    /\ drv[p].DetectRef
    /\ drv[p].Ref = "dev"
    /\ cur[p].ref = "dev"

(* C2: with an empty Ref the resolved ref is the detector's name exactly *)
(* when DetectRef is set and the detector yielded a name, and "master"   *)
(* otherwise; it is never empty, and resolution never ends the call: a   *)
(* Pull that returned went on to fetch.                                  *)
C2_EmptyRef ==
  \A p \in Procs :
    /\ (Resolved(p) /\ drv[p].Ref = "") =>
         /\ cur[p].ref = (IF drv[p].DetectRef /\ cur[p].det # ""
                            THEN cur[p].det ELSE "master")
         /\ (~drv[p].DetectRef => ~Has(trace[p], "remote-show"))
    /\ Resolved(p) => cur[p].ref # ""
    /\ ret[p].op = "Pull" => Has(trace[p], "fetch")

C2_Witness ==
  \E p \in Procs :
    /\ Resolved(p)
    /\ drv[p].Ref = ""
    /\ drv[p].DetectRef
    /\ cur[p].det = ""
    /\ "remote-show" \in cur[p].fails
    /\ cur[p].ref = "master"

(* C3: whatever remote-info, fetch and reset did, Pull invokes HeadRev   *)
(* last and returns its result: an error exactly when HeadRev failed,    *)
(* the trimmed output of rev-parse unless HeadRev failed at start or     *)
(* read.                                                                 *)
C3_PullReturnsHeadRev ==
  \A p \in Procs :
    ret[p].op = "Pull" =>
      /\ trace[p] # <<>> /\ Last(trace[p]) = "rev-parse"
      /\ Has(trace[p], "fetch") /\ Has(trace[p], "reset")
      /\ ret[p].err <=> ret[p].hr # "none"
      /\ ret[p].err <=> "rev-parse" \in ret[p].fails
      /\ ret[p].rev = (IF ret[p].hr \in {"start", "read"} THEN ""
                       ELSE TrimSpace(RevParseOut(dirs[ret[p].dir])))

C3_Witness ==
  \E p \in Procs :
    /\ ret[p].op = "Pull"
    /\ ret[p].fails = {"remote-show", "fetch", "reset"}
    /\ ~ret[p].err
    /\ ret[p].rev \in Commits

(* C4: when the clone subprocess fails, Clone returns the error and an   *)
(* empty revision, and clone is the only subprocess the call invoked.    *)
C4_CloneHardFailure ==
  \A p \in Procs :
    (ret[p].op = "Clone" /\ "clone" \in ret[p].fails) =>
      /\ ret[p].err
      /\ ret[p].rev = ""
      /\ trace[p] = <<"clone">>

C4_Witness ==
  \E p \in Procs :
    /\ ret[p].op = "Clone"
    /\ "clone" \in ret[p].fails
    /\ ret[p].err
    /\ trace[p] = <<"clone">>

(* C5: a Clone that returned revision r and no error left a populated    *)
(* directory whose HEAD is the commit r; a HeadRev called right after it *)
(* that returns a revision returns r, and it does return one unless its  *)
(* own subprocess is hit by a fault.                                     *)
C5_CloneThenHeadRev ==
  \A p \in Procs :
    /\ (ret[p].op = "Clone" /\ ~ret[p].err) =>
         /\ dirs[ret[p].dir].exists
         /\ ret[p].rev \in Commits
         /\ dirs[ret[p].dir].head = ret[p].rev
    /\ (ret[p].op = "HeadRev" /\ ret[p].after # "") =>
         /\ dirs[ret[p].dir].exists
         /\ ~ret[p].err => ret[p].rev = ret[p].after
         /\ ret[p].faults = {} => ~ret[p].err

C5_Witness ==
  \E p \in Procs :
    /\ ret[p].op = "HeadRev"
    /\ ret[p].after \in Commits
    /\ ret[p].faults = {}
    /\ ret[p].rev = ret[p].after

(* a Pull of p has returned while the record of p's Clone of the same    *)
(* directory still stands: the Clone returned no error and the remote    *)
(* has not moved since it began                                          *)
PullAfterClone(p) ==
  /\ ret[p].op = "Pull"
  /\ cloned[p].st = "ok"
  /\ cloned[p].dir = ret[p].dir

C7_ErrorMeansNoRevision ==
  \A p \in Procs :
    (ret[p].op \in {"Clone", "Pull", "HeadRev"} /\ ret[p].err) =>
      ret[p].rev = ""

(* C8: newGit succeeds with DetectRef = false and Ref = "" for an absent *)
(* blob and for an empty blob alike; construction fails, with an error   *)
(* and no driver, only for a blob that is present and not empty.         *)
C8_AbsentOrEmptyBlob ==
  \A p \in Procs :
    /\ (ret[p].op = "newGit" /\ (ret[p].blob.nil \/ ret[p].blob.toks = <<>>)) =>
         /\ ~ret[p].err
         /\ drv[p] = [st |-> "ok", DetectRef |-> FALSE, Ref |-> ""]
    /\ (ret[p].op = "newGit" /\ ret[p].err) =>
         /\ drv[p].st = "err"
         /\ ~ret[p].blob.nil
         /\ ret[p].blob.toks # <<>>

(* C9: when the detector is called and the remote-info subprocess fails, *)
(* the detector yields no ref whatever the subprocess printed, and the   *)
(* resolved ref is the default.                                          *)
C9_FailedDetectionYieldsNoRef ==
  \A p \in Procs :
    (Resolved(p) /\ CallsDetector(drv[p]) /\ "remote-show" \in cur[p].fails) =>
      (cur[p].det = "" /\ cur[p].ref = defaultRef)

(* C10: AutoGeneratedFilePatterns of a directory whose attributes file   *)
(* is absent or cannot be opened returns the empty sequence and no       *)
(* error, invokes no subprocess and leaves every directory as it was.    *)
C10_NoAttributesFile ==
  [][\A p \in Procs, d \in Dirs :
       (CallAutoGeneratedFilePatterns(p, d) /\ dirs[d].attr.st # "file") =>
         /\ ret'[p].op = "AutoGeneratedFilePatterns"
         /\ ret'[p].pats = <<>>
         /\ ~ret'[p].err
         /\ trace'[p] = <<>>
         /\ dirs' = dirs
         /\ remote' = remote]_vars

C10_Witness ==
  \E p \in Procs :
    /\ ret[p].op = "AutoGeneratedFilePatterns"
    /\ dirs[ret[p].dir].exists
    /\ dirs[ret[p].dir].attr.st = "unreadable"
    /\ ret[p].pats = <<>>
    /\ trace[p] = <<>>


(* ------------------------------------------------------------------ *)
(* Order of the subprocesses                                           *)
(* ------------------------------------------------------------------ *)

IsPrefix(s, t) == Len(s) <= Len(t) /\ SubSeq(t, 1, Len(s)) = s

(* the subprocesses of a Pull by driver g, in order *)
PullSteps(g) ==
  (IF CallsDetector(g) THEN <<"remote-show">> ELSE <<>>)
    \o <<"fetch", "reset", "rev-parse">>

(* C12: the subprocesses of a Pull run one after the other in the order *)
(* remote-info (only when the detector is called), fetch, reset,        *)
(* rev-parse, each once; a Clone whose clone succeeded runs clone and    *)
(* then exactly that sequence.  While a call runs, what it has invoked   *)
(* is a proper prefix of its sequence; when it has returned, all of it.  *)
C12_StepOrder ==
  \A p \in Procs :
    /\ cur[p].op = "Pull" =>
         /\ IsPrefix(trace[p], PullSteps(drv[p]))
         /\ Len(trace[p]) < Len(PullSteps(drv[p]))
    /\ cur[p].op = "Clone" =>
         /\ IsPrefix(trace[p], <<"clone">> \o PullSteps(drv[p]))
         /\ Len(trace[p]) < 1 + Len(PullSteps(drv[p]))
    /\ (cur[p].op = "idle" /\ ret[p].op = "Pull") =>
         trace[p] = PullSteps(drv[p])
    /\ (cur[p].op = "idle" /\ ret[p].op = "Clone" /\ "clone" \notin ret[p].fails) =>
         trace[p] = <<"clone">> \o PullSteps(drv[p])

C12_Witness ==
  \E p \in Procs :
    /\ cur[p].op = "idle" /\ ret[p].op = "Clone"
    /\ trace[p] = <<"clone", "remote-show", "fetch", "reset", "rev-parse">>

(* ------------------------------------------------------------------ *)
(* What a Pull leaves                                                  *)
(* ------------------------------------------------------------------ *)

(* the last call of p was a Pull, alone or at the end of a Clone, whose  *)
(* fetch, reset and rev-parse all succeeded                              *)
PullSucceeded(p) ==
  /\ cur[p].op = "idle"
  /\ ret[p].op \in {"Pull", "Clone"}
  /\ Has(trace[p], "rev-parse")
  /\ ret[p].fails \cap {"fetch", "reset", "rev-parse"} = {}

(* C13: when the fetch, the reset and the rev-parse of a Pull all       *)
(* succeed, the tracking ref origin/<ref> and HEAD of the directory both *)
(* are the commit the remote had for the resolved ref when the fetch     *)
(* ran, and the Pull returns that commit without error.                  *)
C13_SyncResult ==
  \A p \in Procs :
    PullSucceeded(p) =>
      /\ ret[p].got \in Commits
      /\ ~ret[p].err
      /\ ret[p].rev = ret[p].got
      /\ dirs[ret[p].dir].head = ret[p].got
      /\ dirs[ret[p].dir].tracking[ret[p].ref] = ret[p].got

(* a Pull that succeeded moved HEAD away from what the Clone had left *)
C13_Witness ==
  \E p \in Procs :
    /\ PullSucceeded(p)
    /\ ret[p].op = "Pull"
    /\ cloned[p].st = "ok" /\ cloned[p].dir = ret[p].dir
    /\ cloned[p].rev \in Commits
    /\ ret[p].rev # cloned[p].rev

(* ------------------------------------------------------------------ *)
(* run                                                                 *)
(* ------------------------------------------------------------------ *)

(* the steps Pull and detectRef hand to run, with run's description *)
RunSteps == {"remote-show", "fetch", "reset"}

RunDesc(step) ==
  CASE step = "remote-show" -> "git show remote info"
    [] step = "fetch" -> "git fetch"
    [] step = "reset" -> "git reset"

(* what the subprocesses handed to run can yield on directory d now *)
RunResults(d) ==
  {GitRemoteShow(remote, dirs[d], fault, text) :
     fault \in BOOLEAN, text \in FailTexts}
  \cup {GitFetch(remote, dirs[d], b, b, fault) : b \in Branches, fault \in BOOLEAN}
  \cup {GitReset(dirs[d], b, fault) : b \in Branches, fault \in BOOLEAN}

(* the call record of p's running call, or of the call that returned *)
CallRec(p) == IF cur[p].op = "idle" THEN ret[p] ELSE cur[p]

RunLog(log) == SelectSeq(log, LAMBDA e : e.by = "run")

(* C14: run returns a nil error and the captured output whatever the    *)
(* subprocess did, and logs exactly one entry, with the description, the *)
(* directory and the output, when it failed: the log of a call holds one *)
(* entry of run for each of its failed fetch, reset and remote-info      *)
(* steps.  So the error branches after run are not taken: detectRef      *)
(* never logs its fetch-info error and a Pull always gets to rev-parse.  *)
C14_RunNeverErrs ==
  /\ \A d \in Dirs, step \in RunSteps : \A res \in RunResults(d) :
       LET r == run(RunDesc(step), d, res)
       IN /\ ~r.err
          /\ r.out = res.out
          /\ r.log = IF res.failed
                       THEN <<LogEntry("run", RunDesc(step), d, res.out)>>
                       ELSE <<>>
  /\ \A p \in Procs :
       LET c == CallRec(p)
       IN c.op \in {"Clone", "Pull"} =>
            /\ Len(RunLog(c.log)) = Cardinality(c.fails \cap RunSteps)
            /\ \A step \in c.fails \cap RunSteps :
                 \E i \in 1..Len(c.log) :
                   /\ c.log[i].by = "run"
                   /\ c.log[i].desc = RunDesc(step)
                   /\ c.log[i].dir = c.dir
            /\ \A i \in 1..Len(c.log) :
                 ~(c.log[i].by = "detectRef"
                   /\ c.log[i].desc = "error occured when fetching info")
            /\ (cur[p].op = "idle" /\ "clone" \notin c.fails) =>
                 Has(trace[p], "rev-parse")

(* a Pull whose fetch and reset both failed logged twice and went on *)
C14_Witness ==
  \E p \in Procs :
    /\ cur[p].op = "idle" /\ ret[p].op = "Pull"
    /\ {"fetch", "reset"} \subseteq ret[p].fails
    /\ Len(RunLog(ret[p].log)) = 2
    /\ Has(trace[p], "rev-parse")

(* ------------------------------------------------------------------ *)
(* Nothing is kept between calls                                       *)
(* ------------------------------------------------------------------ *)

(* C15: no step of any operation changes the DetectRef or Ref of a      *)
(* constructed driver, and a call that returned leaves no call record    *)
(* behind (no resolved ref, no directory); each Pull of a driver with an *)
(* empty Ref and DetectRef set resolves anew: when its remote-info       *)
(* subprocess succeeds the ref it resolves is the HEAD branch the remote *)
(* has at that moment, and its fetch and reset name that ref.            *)
C15_Stateless ==
  [][\A p \in Procs :
       /\ drv[p].st = "ok" => drv'[p] = drv[p]
       /\ cur'[p].op = "idle" => cur'[p] = Idle
       /\ (/\ cur[p].pc = "resolve" /\ cur'[p].pc # "resolve"
           /\ CallsDetector(drv[p])
           /\ "remote-show" \notin cur'[p].fails)
            => cur'[p].ref = RemoteHeadName(remote)
       /\ (cur[p].pc \in {"fetch", "reset"} /\ cur[p].op # "idle")
            => CallRec(p)'.used \subseteq {cur[p].ref}]_vars

(* a detecting driver that had fetched master before has now pulled dev, *)
(* the branch the remote's HEAD was moved to                             *)
C15_Witness ==
  \E p \in Procs :
    /\ cur[p].op = "idle" /\ ret[p].op = "Pull" /\ ret[p].fails = {}
    /\ CallsDetector(drv[p])
    /\ ret[p].ref = "dev" /\ remote.head = "dev"
    /\ ret[p].used = {"dev"}
    /\ dirs[ret[p].dir].tracking["master"] # NoCommit
    /\ dirs[ret[p].dir].head = remote.refs["dev"]

(* ------------------------------------------------------------------ *)
(* Termination                                                         *)
(* ------------------------------------------------------------------ *)

(* a subprocess of p's call exits and the call goes on or returns *)
SubprocessExits(p) ==
  \/ CloneStep(p)
  \/ ResolveStep(p)
  \/ FetchStep(p)
  \/ ResetStep(p)
  \/ RevParseStep(p)

(* one caller with a default or a detecting driver, the remote's HEAD   *)
(* branch moving                                                         *)
NextFair ==
  \/ \E p \in SeqProcs, b \in {NilBlob, DetectBlob} : Construct(p, b)
  \/ \E p \in SeqProcs, d \in SeqDirs, url \in Urls : CallClone(p, d, url)
  \/ \E p \in SeqProcs, d \in SeqDirs : CallPull(p, d)
  \/ \E p \in SeqProcs, d \in SeqDirs : CallHeadRev(p, d)
  \/ \E p \in SeqProcs : CloneStep(p)
  \/ \E p \in SeqProcs : ResolveStep(p)
  \/ \E p \in SeqProcs : FetchStep(p)
  \/ \E p \in SeqProcs : ResetStep(p)
  \/ \E p \in SeqProcs : RevParseStep(p)
  \/ \E b \in Branches : RemoteSetHead(b)

(* every subprocess a call waits for eventually exits *)
SpecFair ==
  /\ Init
  /\ [][NextFair]_vars
  /\ \A p \in SeqProcs : WF_vars(SubprocessExits(p))

(* C16: every Clone, Pull and HeadRev call eventually returns, and a    *)
(* call invokes at most 1 (HeadRev), 4 (Pull) or 5 (Clone) subprocesses: *)
(* none is run again.                                                    *)
C16_Terminates ==
  /\ [](\A p \in Procs :
          /\ CallRec(p).op = "HeadRev" => Len(trace[p]) <= 1
          /\ CallRec(p).op = "Pull" => Len(trace[p]) <= 4
          /\ CallRec(p).op = "Clone" => Len(trace[p]) <= 5
          /\ \A i, j \in 1..Len(trace[p]) : trace[p][i] = trace[p][j] => i = j)
  /\ \A p \in SeqProcs :
       (cur[p].op \in {"Clone", "Pull", "HeadRev"}) ~> (cur[p].op = "idle")

(* a Clone returned after its five subprocesses *)
C16_Witness ==
  \E p \in Procs :
    /\ cur[p].op = "idle" /\ ret[p].op = "Clone"
    /\ Len(trace[p]) = 5

(* ------------------------------------------------------------------ *)
(* The attributes scan                                                 *)
(* ------------------------------------------------------------------ *)

(* the length of the run of `*` a path begins with *)
RECURSIVE StarRun(_)
StarRun(s) ==
  IF s = <<>> \/ s[1] # "*" THEN 0 ELSE 1 + StarRun(Tail(s))

RECURSIVE Wildcards(_)
Wildcards(n) == IF n = 0 THEN <<>> ELSE <<".", "*">> \o Wildcards(n - 1)

(* the conversion told run by run: in a run of k `*` every `**` and the  *)
(* `*` left over, if any, give one `.*` each; the rest is kept           *)
RECURSIVE Globbed(_)
Globbed(s) ==
  IF s = <<>> THEN <<>>
  ELSE LET k == StarRun(s)
       IN IF k = 0 THEN <<s[1]>> \o Globbed(Tail(s))
          ELSE Wildcards((k + 1) \div 2) \o Globbed(SubSeq(s, k + 1, Len(s)))

(* the lines of a file the expression matches, by position *)
Matching(lines) ==
  { i \in 1..Len(lines) : Len(autoGeneratedMatches(lines[i])) = 2 }

(* the k-th matching line *)
NthMatching(lines, k) ==
  CHOOSE i \in Matching(lines) :
    Cardinality({j \in Matching(lines) : j <= i}) = k

NoBareStar(s) ==
  \A i \in 1..Len(s) : s[i] = "*" => (i > 1 /\ s[i - 1] = ".")

(* C17: for every line the expression matches, the emitted pattern is   *)
(* the path with every `**` replaced by one wildcard and then every `*`  *)
(* by `.*`: each `**` and each remaining `*` gives one `.*`, no `*`      *)
(* without a `.` before it remains; the patterns come one per matching   *)
(* line, in file order, repeated when a line is repeated.                *)
C17_GlobConversion ==
  [][\A p \in Procs, d \in Dirs :
       (CallAutoGeneratedFilePatterns(p, d) /\ dirs[d].attr.st = "file") =>
         LET lines == dirs[d].attr.lines
             pats == ret'[p].pats
         IN /\ Len(pats) = Cardinality(Matching(lines))
            /\ \A k \in 1..Len(pats) :
                 LET path == autoGeneratedMatches(lines[NthMatching(lines, k)])[2]
                     out == ReplaceStar(ReplaceStarStar(path))
                 IN /\ pats[k] = Join(Globbed(path))
                    /\ out = Globbed(path)
                    /\ NoBareStar(out)]_vars

(* vendor/**/*.go gave a pattern with two `.*`, and the line that is     *)
(* there twice gave its pattern twice                                    *)
C17_Witness ==
  \E p \in Procs :
    /\ ret[p].op = "AutoGeneratedFilePatterns"
    /\ ret[p].pats = <<"vendor/.*/.*.go", ".*", "b", ".*">>

(* the file without its i-th line *)
WithoutLine(lines, i) ==
  SubSeq(lines, 1, i - 1) \o SubSeq(lines, i + 1, Len(lines))

(* the line ends with the marker and has something before it *)
EndsWithMarker(line) == Len(line) >= 2 /\ line[Len(line)] = MK

(* C18: a line that does not end with the marker, one where further     *)
(* text follows the marker included, and a line with nothing before the  *)
(* marker, contributes no pattern: the scan returns what it returns for  *)
(* the file without that line.                                           *)
C18_MarkerMustBeSuffix ==
  [][\A p \in Procs, d \in Dirs :
       (CallAutoGeneratedFilePatterns(p, d) /\ dirs[d].attr.st = "file") =>
         LET lines == dirs[d].attr.lines
         IN \A i \in 1..Len(lines) :
              ~EndsWithMarker(lines[i]) =>
                ret'[p].pats = AutoGeneratedFilePatterns(File(WithoutLine(lines, i)))]_vars

(* ------------------------------------------------------------------ *)
(* One resolution per Pull                                             *)
(* ------------------------------------------------------------------ *)

Count(s, x) == Cardinality({i \in 1..Len(s) : s[i] = x})

(* C20: within one Pull the target ref is resolved once, before the     *)
(* fetch: the remote-info subprocess runs at most once, and only for a   *)
(* driver with an empty Ref and DetectRef set; from then on the resolved *)
(* ref stays what it is, whatever the remote does, and the source of the *)
(* fetch refspec, the tracking ref the fetch updates and the target of   *)
(* the reset all name it.                                                *)
C20_SingleResolution ==
  /\ [](\A p \in Procs :
          LET c == CallRec(p)
          IN c.op \in {"Clone", "Pull"} =>
               /\ Count(trace[p], "remote-show") <= 1
               /\ Has(trace[p], "remote-show") => CallsDetector(drv[p])
               /\ Has(trace[p], "fetch") =>
                    /\ c.ref # ""
                    /\ c.used \subseteq {c.ref}
               /\ Has(trace[p], "reset") => c.used = {c.ref})
  /\ [][\A p \in Procs :
          (cur[p].op \in {"Clone", "Pull"}
             /\ cur[p].pc \in {"fetch", "reset", "revparse"}) =>
            /\ CallRec(p)'.ref = cur[p].ref
            /\ \A b \in Branches :
                 dirs'[cur[p].dir].tracking[b] # dirs[cur[p].dir].tracking[b]
                   => (b = cur[p].ref /\ cur[p].pc = "fetch")
            /\ dirs'[cur[p].dir].head # dirs[cur[p].dir].head
                 => (/\ cur[p].pc = "reset"
                     /\ dirs'[cur[p].dir].head = dirs[cur[p].dir].tracking[cur[p].ref])]_vars

(* the remote's HEAD branch moved to dev after the call had detected     *)
(* master: the call goes on to reset to master                           *)
C20_Witness ==
  \E p \in Procs :
    /\ cur[p].op = "Pull" /\ cur[p].pc = "reset"
    /\ CallsDetector(drv[p])
    /\ "remote-show" \notin cur[p].fails
    /\ cur[p].ref = "master" /\ cur[p].used = {"master"}
    /\ remote.head = "dev" /\ remote.refs["dev"] # NoCommit

(* ------------------------------------------------------------------ *)
(* Specification: two callers, each with its own driver and its own    *)
(* working directory, their subprocess steps interleaved               *)
(* ------------------------------------------------------------------ *)

Home(p) == IF p = "p1" THEN "d1" ELSE "d2"

(* p1 detects the ref, p2 is configured with ref dev *)
ConfigOf(p) == IF p = "p1" THEN DetectBlob ELSE DevBlob

NextConc ==
  \/ \E p \in Procs : Construct(p, ConfigOf(p))
  \/ \E p \in Procs : CallClone(p, Home(p), GoodUrl)
  \/ \E p \in Procs : CallPull(p, Home(p))
  \/ \E p \in Procs : CallHeadRev(p, Home(p))
  \/ \E p \in Procs : CloneStep(p)
  \/ \E p \in Procs : ResolveStep(p)
  \/ \E p \in Procs : FetchStep(p)
  \/ \E p \in Procs : ResetStep(p)
  \/ \E p \in Procs : RevParseStep(p)

SpecConc == Init /\ [][NextConc]_vars

(* C11: calls on different working directories do not affect one        *)
(* another: under every interleaving of their subprocess steps each call *)
(* takes the return path, returns the revision and the error, and leaves *)
(* its directory in the state, that it does when it runs alone; and no   *)
(* step of a call changes the driver, the call or the result of the      *)
(* other caller.                                                         *)
C11_Independent ==
  /\ [](\A p \in Procs :
          /\ ~solo[p].div
          /\ dirs[Home(p)] = solo[p].dirs[Home(p)]
          /\ Resolved(p) => cur[p].ref = solo[p].ref
          /\ (cur[p].op = "idle" /\ ret[p].op \in {"Clone", "Pull", "HeadRev"}) =>
               (ret[p].rev = solo[p].rev /\ ret[p].err = solo[p].err))
  /\ [][\A p, q \in Procs :
          (p # q /\ SubprocessExits(p)) =>
            /\ drv'[q] = drv[q]
            /\ cur'[q] = cur[q]
            /\ ret'[q] = ret[q]
            /\ trace'[q] = trace[q]
            /\ dirs'[Home(q)] = dirs[Home(q)]]_vars

(* both callers are in the middle of a Pull, one returned from a Clone  *)
(* of its directory while the other was at work                          *)
C11_Witness ==
  /\ cur["p1"].op = "Pull" /\ cur["p1"].pc = "reset"
  /\ cur["p2"].op = "Pull" /\ cur["p2"].pc = "reset"
  /\ dirs["d1"].head \in Commits /\ dirs["d2"].head \in Commits
  /\ dirs["d1"].head # dirs["d2"].head

(* ------------------------------------------------------------------ *)
(* Specification: two callers, with drivers configured for master and  *)
(* for dev, on the same working directory                              *)
(* ------------------------------------------------------------------ *)

MasterBlob == Bytes(<<LB, TStr("ref"), COLON, TStr("master"), RB>>)

SharedDir == "d1"

SharedConfigOf(p) == IF p = "p1" THEN MasterBlob ELSE DevBlob

NextShared ==
  \/ \E p \in Procs : Construct(p, SharedConfigOf(p))
  \/ \E p \in Procs : CallClone(p, SharedDir, GoodUrl)
  \/ \E p \in Procs : CallPull(p, SharedDir)
  \/ \E p \in Procs : CloneStep(p)
  \/ \E p \in Procs : ResolveStep(p)
  \/ \E p \in Procs : FetchStep(p)
  \/ \E p \in Procs : ResetStep(p)
  \/ \E p \in Procs : RevParseStep(p)

SpecShared == Init /\ [][NextShared]_vars

(* C19: the driver takes no lock: a caller can begin a Pull on a        *)
(* directory whatever the other caller is doing there, and each step of  *)
(* a call can be taken whenever the call has reached it, so the steps of *)
(* two Pulls on one directory interleave in every way.                   *)
C19_NoLocking ==
  \A p \in Procs :
    /\ (drv[p].st = "ok" /\ cur[p].op = "idle") => ENABLED CallPull(p, SharedDir)
    /\ cur[p].pc = "clone" => ENABLED CloneStep(p)
    /\ cur[p].pc = "resolve" => ENABLED ResolveStep(p)
    /\ cur[p].pc = "fetch" => ENABLED FetchStep(p)
    /\ cur[p].pc = "reset" => ENABLED ResetStep(p)
    /\ cur[p].pc = "revparse" => ENABLED RevParseStep(p)

(* fetch A, fetch B, reset A, reset B, rev-parse A: the Pull of p, whose *)
(* subprocesses all succeeded, returned the commit of q's ref, not of    *)
(* its own, while q is between its reset and its rev-parse               *)
C19_Witness ==
  \E p, q \in Procs :
    /\ p # q
    /\ cur[p].op = "idle" /\ ret[p].op = "Pull"
    /\ ret[p].fails = {} /\ ~ret[p].err
    /\ cur[q].op = "Pull" /\ cur[q].pc = "revparse" /\ cur[q].fails = {}
    /\ ret[p].ref # cur[q].ref
    /\ ret[p].rev = remote.refs[cur[q].ref]
    /\ ret[p].rev # remote.refs[ret[p].ref]

====
